---- MODULE Spec2Model ----
(***************************************************************************)
(* Attendance verification and session reconciliation of the express-api   *)
(* repository: checkIn / checkOut / runAutoCheckOut of the employee         *)
(* controller, over the employees and attendance tables.                   *)
(*                                                                         *)
(* Time is counted in seconds on one axis (the value the code stores in    *)
(* check_in_time / check_out_time).  Face encodings are vectors of         *)
(* integers in units of 1/10, so the threshold 0.5 is 5.                   *)
(***************************************************************************)
EXTENDS Integers, Sequences, FiniteSets, TLC

VARIABLES employees, attendance, clock, env, modelsLoaded, preload, req, job,
          authUsers, adminModelsLoaded, enroll, calc, stats, notes, gate

enrollVars == <<authUsers, adminModelsLoaded, enroll>>
viewVars == <<calc, stats, gate>>

vars == <<employees, attendance, clock, env, modelsLoaded, preload, req, job,
          authUsers, adminModelsLoaded, enroll, calc, stats, notes, gate>>

(***************************************************************************)
(* Bounds and input sets                                                   *)
(***************************************************************************)
MaxSessions == 2
MaxLen == 2
MaxNotes == 2

Requests == {"r1", "r2"}
Jobs == {"cron", "manual"}

NoUser == "nouser"
EmpIds == {"e1", "e2", "e3", "e4"}
Users == EmpIds \cup {NoUser}

\* createEmployee: concurrent requests, the keys and credential ids that
\* new rows and new credentials receive, and the request bodies.
Enrollments == {"a1", "a2"}
NewIds == {"n1", "n2"}
EmpKeys == EmpIds \cup NewIds
NoCred == 0
InitAuthUsers == {1, 2, 3}
CredPool == {4, 5}
EnrollCodes == {"c1", "c9"}

Absent == [some |-> FALSE, v |-> <<>>]
Some(v) == [some |-> TRUE, v |-> v]

Images ==
  { [kind |-> "none", descriptor |-> <<>>],
    [kind |-> "bad", descriptor |-> <<>>],
    [kind |-> "noface", descriptor |-> <<>>],
    [kind |-> "face", descriptor |-> <<3, 4>>],
    [kind |-> "face", descriptor |-> <<3, 5>>],
    [kind |-> "face", descriptor |-> <<3, 4, 0>>] }

\* The vectors handed to getEuclideanDistance.
Embeddings ==
  {Absent} \cup {Some(v) : v \in UNION {[1..n -> {0, 3, 4}] : n \in 0..MaxLen}}

TzOffsets == {0, 7}

NoTime == 0 - 1

DaySecs == 24 * 60 * 60
HMS(h, m, s) == (h * 60 + m) * 60 + s
At(day, h, m, s) == day * DaySecs + HMS(h, m, s)

ClockPoints ==
  { At(0, 7, 59, 0), At(0, 8, 0, 0), At(0, 8, 10, 0), At(0, 8, 15, 0),
    At(0, 8, 15, 30), At(0, 8, 16, 0), At(0, 14, 0, 0), At(0, 23, 59, 0), At(1, 8, 10, 0), At(1, 14, 0, 0),
    At(1, 23, 30, 0), At(1, 23, 59, 0), At(1, 23, 59, 30) }

VerifyClock == { At(0, 7, 59, 0), At(0, 8, 16, 0) }
ReconClock == { At(0, 7, 59, 0), At(1, 14, 0, 0) }

EnrollImages ==
  { [kind |-> "none", descriptor |-> <<>>],
    [kind |-> "bad", descriptor |-> <<>>],
    [kind |-> "noface", descriptor |-> <<>>],
    [kind |-> "face", descriptor |-> <<3, 4>>] }

MatchImage == [kind |-> "face", descriptor |-> <<3, 4>>]

(***************************************************************************)
(* Program constants                                                       *)
(***************************************************************************)
Threshold == 5
StartHour == 8
LateMinute == 15
FixedCloseHour == 13
Infinity == 1000000

(***************************************************************************)
(* Date helpers.  A Date is its number of seconds; tz is the offset in     *)
(* hours of the server's local time zone, which Date.setHours uses.        *)
(***************************************************************************)
SetHours(d, h, m, s, tz) ==
  LET localDay == (d + tz * 3600) \div DaySecs
  IN  localDay * DaySecs + HMS(h, m, s) - tz * 3600

SetUTCHours(d, h, m, s) == (d \div DaySecs) * DaySecs + HMS(h, m, s)

(***************************************************************************)
(* getEuclideanDistance: Infinity when a vector is absent or the lengths   *)
(* differ, otherwise the square root of the sum of squared differences,    *)
(* rounded up to the unit (which keeps every comparison with an integer    *)
(* threshold exact).                                                       *)
(***************************************************************************)
RECURSIVE SumSq(_, _, _)
SumSq(a, b, i) ==
  IF i > Len(a) THEN 0
  ELSE (a[i] - b[i]) * (a[i] - b[i]) + SumSq(a, b, i + 1)

Sqrt(n) == CHOOSE r \in 0..n : r * r >= n /\ (r = 0 \/ (r - 1) * (r - 1) < n)

\* Variant of getEuclideanDistance that compares the common prefix of
\* vectors of different lengths.
getEuclideanDistancePrefix(face1, face2) ==
  IF ~face1.some \/ ~face2.some THEN Infinity
  ELSE IF Len(face1.v) <= Len(face2.v) THEN Sqrt(SumSq(face1.v, face2.v, 1))
  ELSE Sqrt(SumSq(face2.v, face1.v, 1))

\* Variant of getEuclideanDistance that measures every coordinate of face1
\* against the first coordinate of face2.
getEuclideanDistanceToFirst(face1, face2) ==
  IF ~face1.some \/ ~face2.some \/ Len(face1.v) # Len(face2.v) THEN Infinity
  ELSE Sqrt(SumSq(face1.v, [i \in 1..Len(face1.v) |-> face2.v[1]], 1))

getEuclideanDistance(face1, face2) ==
  IF ~face1.some \/ ~face2.some \/ Len(face1.v) # Len(face2.v) THEN Infinity
  ELSE Sqrt(SumSq(face1.v, face2.v, 1))

(***************************************************************************)
(* Calendar.  Months have DaysInMonth days and day 0 is the 1st of a       *)
(* month; Weekday0 is the weekday of day 0 (0 = Sunday), chosen so that    *)
(* day 30, the 1st of the next month, is a Saturday.                       *)
(***************************************************************************)
DaysInMonth == 30
Weekday0 == 4
CambodiaOffset == 7

\* getUTCDay() and getDay(): the weekday of the UTC and of the local day.
getUTCDay(d) == ((d \div DaySecs) + Weekday0) % 7
getDay(d, tz) == getUTCDay(d + tz * 3600)

\* new Date(now.getFullYear(), now.getMonth(), 1): local midnight of the
\* 1st of the local month of now.
StartOfMonth(now, tz) ==
  LET localDay == (now + tz * 3600) \div DaySecs
  IN  (localDay \div DaysInMonth) * DaysInMonth * DaySecs - tz * 3600

\* new Date(): the instant whose Cambodia wall clock is c.
RealNow(c) == c - CambodiaOffset * 3600

(***************************************************************************)
(* Statistics of getAttendanceHistory (single identity) and of             *)
(* getAllAttendanceHistory (organization).                                 *)
(***************************************************************************)
\* The loop of getAttendanceHistory: one step per 24 hours from d while
\* d <= now, counting the steps whose UTC weekday is not Sunday or Saturday.
RECURSIVE WorkingDays(_, _)
WorkingDays(d, now) ==
  IF d > now THEN 0
  ELSE (IF getUTCDay(d) # 0 /\ getUTCDay(d) # 6 THEN 1 ELSE 0)
         + WorkingDays(d + DaySecs, now)

\* The loop of getAllAttendanceHistory: local weekday, Sunday excluded.
RECURSIVE AllWorkingDays(_, _, _)
AllWorkingDays(d, now, tz) ==
  IF d > now THEN 0
  ELSE (IF getDay(d, tz) # 0 THEN 1 ELSE 0) + AllWorkingDays(d + DaySecs, now, tz)

\* uniquePresent of getAttendanceHistory: the UTC dates (toISOString) of
\* the user's records inside [startOfMonth, now].
UniquePresent(att, user, startOfMonth, now) ==
  { att[i].check_in_time \div DaySecs :
      i \in { k \in DOMAIN att :
                /\ att[k].employee_id = user
                /\ att[k].check_in_time >= startOfMonth
                /\ att[k].check_in_time <= now
                /\ att[k].status = "present" } }

\* uniquePresent of getAllAttendanceHistory: employee and local date
\* (toDateString) of the records inside [startOfMonth, now].
AllUniquePresent(att, startOfMonth, now, tz) ==
  { <<att[i].employee_id, (att[i].check_in_time + tz * 3600) \div DaySecs>> :
      i \in { k \in DOMAIN att :
                /\ att[k].check_in_time >= startOfMonth
                /\ att[k].check_in_time <= now
                /\ att[k].status = "present" } }

\* Variant of AbsentCount without the lower bound.
AbsentCountRaw(expected, present) == expected - present

\* Math.max(0, expected - present)
AbsentCount(expected, present) ==
  IF expected - present > 0 THEN expected - present ELSE 0

\* select count from employees
TotalEmployees(emps) == Cardinality({k \in DOMAIN emps : emps[k].present})

(***************************************************************************)
(* Punctuality classification of checkIn (status_time).                    *)
(***************************************************************************)
StatusTime(checkInDate, tz) ==
  LET startTime == SetHours(checkInDate, StartHour, 0, 0, tz)
      lateTime == SetHours(checkInDate, StartHour, LateMinute, 0, tz)
  IN  IF checkInDate < startTime THEN "Early"
      ELSE IF checkInDate > lateTime THEN "Late"
      ELSE "On Time"

(***************************************************************************)
(* Responses (HTTP status and error text) and task records                 *)
(***************************************************************************)
Resp(status, error) == [status |-> status, error |-> error]
NoResp == Resp(0, "")

ErrNotFound == "Employee record not found"
ErrNotRegistered == "Face not registered. Please contact admin."
ErrNoFace == "No face detected in camera feed"
ErrMismatch == "Face verification failed: Not your face"
ErrNoOpenSession == "No active check-in found. Please check in first."
ErrUnavailable == "Face verification unavailable: Server missing graphics libraries."
ErrDecode == "image decode failed"
ErrStore == "store error"
Ok == "ok"

ErrExists == "Employee ID already exists."
ErrAuth == "auth error"
ErrEnrollNoFace == "No face detected. Please try a clearer photo."
ErrConflict == "Conflict: Record already exists."
Created == "Employee created successfully"

\* The auth middleware's view of one request: the words of its
\* Authorization header, the roles the route allows, the response it sent
\* (NoResp when it sent none) and whether next() was called.
NoRole == "norole"
NoGate ==
  [ st |-> "idle", header |-> <<>>, allowedRoles |-> {}, resp |-> NoResp,
    next |-> FALSE ]

NoCalc == [st |-> "none", a |-> Absent, b |-> Absent, out |-> 0]
NoStats ==
  [ view |-> "none", user |-> NoUser, status |-> 0,
    absent |-> 0, workingDays |-> 0, present |-> 0 ]

NoEmpTask == [st |-> "none", error |-> FALSE, found |-> FALSE, enc |-> Absent]
NoFindTask == [st |-> "none", error |-> FALSE, id |-> 0]
NoDetTask == [st |-> "none", face |-> FALSE, descriptor |-> <<>>, error |-> ""]

IdleReq ==
  [ kind |-> "none", pc |-> "idle", user |-> NoUser,
    image |-> [kind |-> "none", descriptor |-> <<>>],
    emp |-> NoEmpTask, find |-> NoFindTask, det |-> NoDetTask,
    time |-> NoTime, statusTime |-> "", resp |-> NoResp ]

IdleJob ==
  [ pc |-> "idle", now |-> NoTime, closeTime |-> NoTime, records |-> {},
    pending |-> {}, closed |-> 0, reported |-> 0 - 1, error |-> FALSE,
    seen |-> 0, resp |-> NoResp ]

\* The manual trigger route awaits runAutoCheckOut, which catches every
\* error itself, and then answers; the scheduled run answers nobody.
Triggered == "Auto check-out task triggered manually"

TriggerResponse(j, error) == IF j = "manual" THEN Resp(200, Triggered) ELSE NoResp

(***************************************************************************)
(* loadModels and detectFace                                               *)
(***************************************************************************)
\* loadModels up to its first await: returns at once, throws, or starts a load.
loadModels(e, loaded) ==
  IF loaded \/ ~e.canvas THEN "return"
  ELSE IF ~e.modelsExist THEN "throw"
  ELSE "loading"

\* detectFace up to its first await.
detectFace(e, loaded) ==
  IF ~e.canvas THEN [NoDetTask EXCEPT !.st = "rejected", !.error = ErrUnavailable]
  ELSE IF ~loaded /\ loadModels(e, loaded) = "throw"
    THEN [NoDetTask EXCEPT !.st = "rejected", !.error = "FaceAPI models missing"]
  ELSE IF ~loaded /\ loadModels(e, loaded) = "loading"
    THEN [NoDetTask EXCEPT !.st = "loading"]
  ELSE [NoDetTask EXCEPT !.st = "decoding"]

\* loadImage and detectSingleFace(...).withFaceDescriptor() on the image.
Detection(image) ==
  IF image.kind = "bad" THEN [NoDetTask EXCEPT !.st = "rejected", !.error = ErrDecode]
  ELSE IF image.kind = "noface" THEN [NoDetTask EXCEPT !.st = "fulfilled"]
  ELSE [NoDetTask EXCEPT !.st = "fulfilled", !.face = TRUE,
                         !.descriptor = image.descriptor]

(***************************************************************************)
(* Store queries                                                           *)
(***************************************************************************)
\* employees.select('face_encoding').eq('id', id).single()
SelectEmployee(emps, id, fail) ==
  IF fail THEN [NoEmpTask EXCEPT !.st = "resolved", !.error = TRUE]
  ELSE IF id \in DOMAIN emps /\ emps[id].present
    THEN [NoEmpTask EXCEPT !.st = "resolved", !.found = TRUE,
                           !.enc = emps[id].face_encoding]
  ELSE [NoEmpTask EXCEPT !.st = "resolved", !.error = TRUE]

OpenIds(att, user) ==
  {i \in DOMAIN att : att[i].employee_id = user /\ att[i].check_out_time = NoTime}

\* attendance ... .is('check_out_time', null).order('check_in_time', desc).limit(1)
LatestOpen(att, user) ==
  {i \in OpenIds(att, user) :
     \A j \in OpenIds(att, user) : att[j].check_in_time <= att[i].check_in_time}

\* Variant of NewRow that stores the session already closed.
NewRowClosed(att, user, t, statusTime) ==
  [ id |-> Len(att) + 1, employee_id |-> user, check_in_time |-> t,
    check_out_time |-> t, status |-> "present", status_time |-> statusTime ]

NewRow(att, user, t, statusTime) ==
  [ id |-> Len(att) + 1, employee_id |-> user, check_in_time |-> t,
    check_out_time |-> NoTime, status |-> "present", status_time |-> statusTime ]

\* Variant of UpdateCheckOut addressed by the row's identity instead of its id.
UpdateCheckOutByEmployee(att, id, t) ==
  [i \in DOMAIN att |->
     IF /\ \E k \in DOMAIN att : att[k].id = id /\ att[k].employee_id = att[i].employee_id
        /\ att[i].check_out_time = NoTime
     THEN [att[i] EXCEPT !.check_out_time = t, !.status = "present"]
     ELSE att[i]]

\* Variant of UpdateCheckOut that recomputes the punctuality at check-out.
UpdateCheckOutReclassify(att, id, t) ==
  [i \in DOMAIN att |->
     IF att[i].id = id
     THEN [att[i] EXCEPT !.check_out_time = t, !.status = "present",
                         !.status_time = StatusTime(t, 0)]
     ELSE att[i]]

\* attendance.update({check_out_time, status: 'present', ...}).eq('id', id)
UpdateCheckOut(att, id, t) ==
  [i \in DOMAIN att |->
     IF att[i].id = id
     THEN [att[i] EXCEPT !.check_out_time = t, !.status = "present"]
     ELSE att[i]]

(***************************************************************************)
(* Validations of checkIn / checkOut after the join                        *)
(***************************************************************************)
\* Variant of Verify that throws when no face is detected.
VerifyThrowNoFace(emp, det) ==
  IF emp.error \/ ~emp.found THEN Resp(404, ErrNotFound)
  ELSE IF ~emp.enc.some THEN Resp(400, ErrNotRegistered)
  ELSE IF ~det.face THEN Resp(500, ErrNoFace)
  ELSE IF getEuclideanDistance(emp.enc, Some(det.descriptor)) > Threshold
    THEN Resp(403, ErrMismatch)
  ELSE Resp(200, Ok)

\* Variant of Verify that rejects a distance equal to the threshold.
VerifyStrict(emp, det) ==
  IF emp.error \/ ~emp.found THEN Resp(404, ErrNotFound)
  ELSE IF ~emp.enc.some THEN Resp(400, ErrNotRegistered)
  ELSE IF ~det.face THEN Resp(400, ErrNoFace)
  ELSE IF getEuclideanDistance(emp.enc, Some(det.descriptor)) >= Threshold
    THEN Resp(403, ErrMismatch)
  ELSE Resp(200, Ok)

Verify(emp, det) ==
  IF emp.error \/ ~emp.found THEN Resp(404, ErrNotFound)
  ELSE IF ~emp.enc.some THEN Resp(400, ErrNotRegistered)
  ELSE IF ~det.face THEN Resp(400, ErrNoFace)
  ELSE IF getEuclideanDistance(emp.enc, Some(det.descriptor)) > Threshold
    THEN Resp(403, ErrMismatch)
  ELSE Resp(200, Ok)

\* Variant of CheckOutOutcome without the test of lastCheckIn.
CheckOutOutcomeNoTest(emp, det, find) ==
  IF Verify(emp, det).status # 200 THEN Verify(emp, det)
  ELSE IF find.error THEN Resp(500, ErrStore)
  ELSE Resp(200, Ok)

\* checkOut after the join: validations, findError, lastCheckIn.
CheckOutOutcome(emp, det, find) ==
  IF Verify(emp, det).status # 200 THEN Verify(emp, det)
  ELSE IF find.error THEN Resp(500, ErrStore)
  ELSE IF find.id = 0 THEN Resp(400, ErrNoOpenSession)
  ELSE Resp(200, Ok)

\* Validation before the tasks are launched.
Precheck(user, image) ==
  IF image.kind = "none" THEN Resp(400, "Image capture is required")
  ELSE IF user = NoUser THEN Resp(401, "Unauthorized: User not identified")
  ELSE Resp(200, Ok)

\* runAutoCheckOut, run-time variant: .update({check_out_time, status}).eq('id', id)
ReconUpdateRow(att, id, t) ==
  [i \in DOMAIN att |->
     IF att[i].id = id
     THEN [att[i] EXCEPT !.check_out_time = t, !.status = "present"]
     ELSE att[i]]

\* runAutoCheckOut, fixed-instant variant: .update({check_out_time}).in('id', ids)
BulkClose(att, ids, t) ==
  [i \in DOMAIN att |->
     IF att[i].id \in ids THEN [att[i] EXCEPT !.check_out_time = t] ELSE att[i]]

\* Variant of SelectForgotten without the check_out_time filter.
SelectForgottenAnyState(att, lo, hi) ==
  {att[i].id : i \in {k \in DOMAIN att :
      /\ att[k].check_in_time >= lo
      /\ att[k].check_in_time <= hi}}

\* .is('check_out_time', null).gte('check_in_time', lo).lte('check_in_time', hi)
SelectForgotten(att, lo, hi) ==
  {att[i].id : i \in {k \in DOMAIN att :
      /\ att[k].check_out_time = NoTime
      /\ att[k].check_in_time >= lo
      /\ att[k].check_in_time <= hi}}

\* The day range and the closing instant of one run.
StartOfDay(now, e) ==
  IF e.fixedClose THEN SetHours(now, 0, 0, 0, e.tz) ELSE SetUTCHours(now, 0, 0, 0)

EndOfDay(now, e) ==
  IF e.fixedClose THEN SetHours(now, 23, 59, 59, e.tz) ELSE SetUTCHours(now, 23, 59, 59)

CloseTime(now, e) ==
  IF e.fixedClose THEN SetHours(now, FixedCloseHour, 0, 0, e.tz) ELSE now

\* cron '59 23 * * *' (run-time variant) / the 23:30 poll (fixed-instant variant)
IsScheduleTime(now, e) ==
  IF e.fixedClose THEN now = SetHours(now, 23, 30, 0, e.tz)
  ELSE now = SetUTCHours(now, 23, 59, 0)

(***************************************************************************)
(* State                                                                   *)
(***************************************************************************)
Envs ==
  {e \in [canvas : BOOLEAN, modelsExist : BOOLEAN, tz : TzOffsets, fixedClose : BOOLEAN] :
     ~e.canvas => ~e.modelsExist}

NoEmployee ==
  [ present |-> FALSE, face_encoding |-> Absent, employee_id |-> "",
    auth_uid |-> NoCred, is_registered |-> FALSE ]

InitEmployees ==
  [id \in EmpKeys |->
     IF id = "e1"
       THEN [ present |-> TRUE, face_encoding |-> Some(<<0, 0>>), employee_id |-> "c1",
              auth_uid |-> 1, is_registered |-> TRUE ]
     ELSE IF id = "e2"
       THEN [ present |-> TRUE, face_encoding |-> Some(<<6, 8>>), employee_id |-> "c2",
              auth_uid |-> 2, is_registered |-> TRUE ]
     ELSE IF id = "e3"
       THEN [ present |-> TRUE, face_encoding |-> Absent, employee_id |-> "c3",
              auth_uid |-> 3, is_registered |-> FALSE ]
     ELSE NoEmployee]

IdleEnroll ==
  [ pc |-> "idle", code |-> "", image |-> [kind |-> "none", descriptor |-> <<>>],
    cred |-> NoCred, face_encoding |-> Absent, is_registered |-> FALSE,
    why |-> "", rollback |-> "", resp |-> NoResp ]

InitWith(es) ==
  /\ employees = InitEmployees
  /\ attendance = <<>>
  /\ clock = At(0, 7, 59, 0)
  /\ env \in es
  /\ modelsLoaded = FALSE
  /\ preload = IF loadModels(env, FALSE) = "loading" THEN "loading" ELSE "settled"
  /\ req = [r \in Requests |-> IdleReq]
  /\ job = [j \in Jobs |-> IdleJob]
  /\ authUsers = InitAuthUsers
  /\ adminModelsLoaded = FALSE
  /\ enroll = [a \in Enrollments |-> IdleEnroll]
  /\ calc = NoCalc
  /\ stats = NoStats
  /\ notes = <<>>
  /\ gate = NoGate

(***************************************************************************)
(* Environment steps                                                       *)
(***************************************************************************)
Tick(t) ==
  /\ t \in ClockPoints
  /\ t > clock
  /\ clock' = t
  /\ UNCHANGED <<notes, viewVars, enrollVars, employees, attendance, env, modelsLoaded, preload, req, job>>

\* The start-up preload loadModels() completes.
PreloadDone ==
  /\ preload = "loading"
  /\ preload' = "settled"
  /\ modelsLoaded' = TRUE
  /\ UNCHANGED <<notes, viewVars, enrollVars, employees, attendance, clock, env, req, job>>

(***************************************************************************)
(* checkIn / checkOut                                                      *)
(***************************************************************************)
Free(r) == req[r].pc \in {"idle", "done"}

InFlightCheckIns ==
  Cardinality({r \in Requests : req[r].kind = "checkin"
                                 /\ req[r].pc \in {"waiting", "inserting"}})

\* Promise.all: rejected as soon as one task rejects, fulfilled when all are.
Rejected(q) == q.det.st = "rejected"

AllFulfilled(q) ==
  /\ q.emp.st = "resolved"
  /\ q.det.st = "fulfilled"
  /\ q.find.st \in {"none", "resolved"}

\* res.status(..).json(..): the request ends; its body and its response
\* are kept.
Respond(q, resp) ==
  [IdleReq EXCEPT !.kind = q.kind, !.pc = "done", !.image = q.image, !.resp = resp]

\* The res.json wrapper of the /employee middleware: a 2xx response of a
\* check-in or check-out starts a notification, which keeps the request's
\* kind and user and the row of the response body.
NewNote(q, row) ==
  [ type |-> q.kind, user |-> q.user, row |-> row, st |-> "settings", status |-> "" ]

\* Variant of resJson without the test of the status code.
resJsonAnyStatus(ns, q, resp, row) ==
  IF q.kind \in {"checkin", "checkout"}
  THEN Append(ns, NewNote(q, row))
  ELSE ns

resJson(ns, q, resp, row) ==
  IF /\ resp.status >= 200 /\ resp.status < 300
     /\ q.kind \in {"checkin", "checkout"}
  THEN Append(ns, NewNote(q, row))
  ELSE ns

Launch(kind, user, image) ==
  LET pre == Precheck(user, image)
      base == [IdleReq EXCEPT !.kind = kind, !.user = user, !.image = image]
  IN  IF pre.status # 200
      THEN Respond(base, pre)
      ELSE [base EXCEPT !.pc = "waiting",
                        !.emp = [NoEmpTask EXCEPT !.st = "pending"],
                        !.find = IF kind = "checkout"
                                 THEN [NoFindTask EXCEPT !.st = "pending"]
                                 ELSE NoFindTask,
                        !.det = detectFace(env, modelsLoaded)]

CheckInStart(r, user, image) ==
  /\ Free(r)
  /\ Len(attendance) + InFlightCheckIns < MaxSessions
  /\ req' = [req EXCEPT ![r] = Launch("checkin", user, image)]
  /\ notes' = IF req'[r].pc = "done" THEN resJson(notes, req'[r], req'[r].resp, 0)
               ELSE notes
  /\ UNCHANGED <<viewVars, enrollVars, employees, attendance, clock, env, modelsLoaded, preload, job>>

CheckOutStart(r, user, image) ==
  /\ Free(r)
  /\ req' = [req EXCEPT ![r] = Launch("checkout", user, image)]
  /\ notes' = IF req'[r].pc = "done" THEN resJson(notes, req'[r], req'[r].resp, 0)
               ELSE notes
  /\ UNCHANGED <<viewVars, enrollVars, employees, attendance, clock, env, modelsLoaded, preload, job>>

EmployeeTask(r, fail) ==
  /\ req[r].emp.st = "pending"
  /\ req' = [req EXCEPT ![r].emp = SelectEmployee(employees, req[r].user, fail)]
  /\ UNCHANGED <<notes, viewVars, enrollVars, employees, attendance, clock, env, modelsLoaded, preload, job>>

LastCheckInTask(r, fail) ==
  /\ req[r].find.st = "pending"
  /\ \/ /\ fail
        /\ req' = [req EXCEPT ![r].find = [st |-> "resolved", error |-> TRUE, id |-> 0]]
     \/ /\ ~fail
        /\ LatestOpen(attendance, req[r].user) = {}
        /\ req' = [req EXCEPT ![r].find = [st |-> "resolved", error |-> FALSE, id |-> 0]]
     \/ /\ ~fail
        /\ \E i \in LatestOpen(attendance, req[r].user) :
             req' = [req EXCEPT ![r].find =
                       [st |-> "resolved", error |-> FALSE, id |-> attendance[i].id]]
  /\ UNCHANGED <<notes, viewVars, enrollVars, employees, attendance, clock, env, modelsLoaded, preload, job>>

LoadModelsDone(r) ==
  /\ req[r].det.st = "loading"
  /\ modelsLoaded' = TRUE
  /\ req' = [req EXCEPT ![r].det.st = "decoding"]
  /\ UNCHANGED <<notes, viewVars, enrollVars, employees, attendance, clock, env, preload, job>>

DetectionTask(r) ==
  /\ req[r].det.st = "decoding"
  /\ req' = [req EXCEPT ![r].det = Detection(req[r].image)]
  /\ UNCHANGED <<notes, viewVars, enrollVars, employees, attendance, clock, env, modelsLoaded, preload, job>>

CheckInCatch(r) ==
  /\ req[r].kind = "checkin" /\ req[r].pc = "waiting"
  /\ Rejected(req[r])
  /\ req' = [req EXCEPT ![r] = Respond(req[r], Resp(500, req[r].det.error))]
  /\ notes' = resJson(notes, req[r], req'[r].resp, 0)
  /\ UNCHANGED <<viewVars, enrollVars, employees, attendance, clock, env, modelsLoaded, preload, job>>

\* Variant of CheckInDecide that writes the session before validating.
CheckInDecideEager(r) ==
  /\ req[r].kind = "checkin" /\ req[r].pc = "waiting"
  /\ AllFulfilled(req[r])
  /\ attendance' = Append(attendance,
        NewRow(attendance, req[r].user, clock, StatusTime(clock, env.tz)))
  /\ req' = [req EXCEPT ![r] = Respond(req[r], Verify(req[r].emp, req[r].det))]
  /\ notes' = resJson(notes, req[r], req'[r].resp, Len(attendance'))
  /\ UNCHANGED <<viewVars, enrollVars, employees, clock, env, modelsLoaded, preload, job>>

CheckInDecide(r) ==
  /\ req[r].kind = "checkin" /\ req[r].pc = "waiting"
  /\ AllFulfilled(req[r])
  /\ LET v == Verify(req[r].emp, req[r].det)
     IN  req' = [req EXCEPT ![r] =
                   IF v.status # 200 THEN Respond(req[r], v)
                   ELSE [req[r] EXCEPT !.pc = "inserting", !.time = clock,
                                       !.statusTime = StatusTime(clock, env.tz)]]
  /\ notes' = IF req'[r].pc = "done" THEN resJson(notes, req[r], req'[r].resp, 0)
               ELSE notes
  /\ UNCHANGED <<viewVars, enrollVars, employees, attendance, clock, env, modelsLoaded, preload, job>>

InsertExec(r, fail) ==
  /\ req[r].pc = "inserting"
  /\ IF fail
     THEN /\ attendance' = attendance
          /\ req' = [req EXCEPT ![r] = Respond(req[r], Resp(500, ErrStore))]
     ELSE /\ attendance' = Append(attendance,
               NewRow(attendance, req[r].user, req[r].time, req[r].statusTime))
          /\ req' = [req EXCEPT ![r] = Respond(req[r], Resp(200, Ok))]
  /\ notes' = resJson(notes, req[r], req'[r].resp, Len(attendance'))
  /\ UNCHANGED <<viewVars, enrollVars, employees, clock, env, modelsLoaded, preload, job>>

\* Variant of CheckOutCatch that lets the rejection escape without a response.
CheckOutCatchSilent(r) ==
  /\ req[r].kind = "checkout" /\ req[r].pc = "waiting"
  /\ Rejected(req[r])
  /\ req' = [req EXCEPT ![r].pc = "thrown"]
  /\ notes' = notes
  /\ UNCHANGED <<viewVars, enrollVars, employees, attendance, clock, env, modelsLoaded, preload, job>>

CheckOutCatch(r) ==
  /\ req[r].kind = "checkout" /\ req[r].pc = "waiting"
  /\ Rejected(req[r])
  /\ req' = [req EXCEPT ![r] = Respond(req[r], Resp(500, req[r].det.error))]
  /\ notes' = resJson(notes, req[r], req'[r].resp, 0)
  /\ UNCHANGED <<viewVars, enrollVars, employees, attendance, clock, env, modelsLoaded, preload, job>>

CheckOutDecide(r) ==
  /\ req[r].kind = "checkout" /\ req[r].pc = "waiting"
  /\ AllFulfilled(req[r])
  /\ LET v == CheckOutOutcome(req[r].emp, req[r].det, req[r].find)
     IN  req' = [req EXCEPT ![r] =
                   IF v.status # 200 THEN Respond(req[r], v)
                   ELSE [req[r] EXCEPT !.pc = "updating", !.time = clock]]
  /\ notes' = IF req'[r].pc = "done" THEN resJson(notes, req[r], req'[r].resp, 0)
               ELSE notes
  /\ UNCHANGED <<viewVars, enrollVars, employees, attendance, clock, env, modelsLoaded, preload, job>>

UpdateExec(r, fail) ==
  /\ req[r].pc = "updating"
  /\ IF fail
     THEN /\ attendance' = attendance
          /\ req' = [req EXCEPT ![r] = Respond(req[r], Resp(500, ErrStore))]
     ELSE /\ attendance' = UpdateCheckOut(attendance, req[r].find.id, req[r].time)
          /\ req' = [req EXCEPT ![r] = Respond(req[r], Resp(200, Ok))]
  /\ notes' = resJson(notes, req[r], req'[r].resp, req[r].find.id)
  /\ UNCHANGED <<viewVars, enrollVars, employees, clock, env, modelsLoaded, preload, job>>

(***************************************************************************)
(* runAutoCheckOut                                                         *)
(***************************************************************************)
ReconStart(j) ==
  /\ job[j].pc \in {"idle", "done"}
  /\ j = "cron" => IsScheduleTime(clock, env)
  /\ job' = [job EXCEPT ![j] = [IdleJob EXCEPT !.pc = "selecting", !.now = clock,
                                             !.seen = Len(attendance)]]
  /\ UNCHANGED <<notes, viewVars, enrollVars, employees, attendance, clock, env, modelsLoaded, preload, req>>

ReconSelect(j, fail) ==
  /\ job[j].pc = "selecting"
  /\ LET records == SelectForgotten(attendance, StartOfDay(job[j].now, env),
                                    EndOfDay(job[j].now, env))
     IN  job' = [job EXCEPT ![j] =
                   IF fail THEN [job[j] EXCEPT !.pc = "done", !.error = TRUE, !.seen = 0,
                                               !.resp = TriggerResponse(j, TRUE)]
                   ELSE IF records = {}
                     THEN [job[j] EXCEPT !.pc = "done", !.reported = 0, !.seen = 0,
                                         !.resp = TriggerResponse(j, FALSE)]
                   ELSE [job[j] EXCEPT
                           !.pc = IF env.fixedClose THEN "bulk" ELSE "updating",
                           !.records = records, !.pending = records,
                           !.closeTime = CloseTime(job[j].now, env)]]
  /\ UNCHANGED <<notes, viewVars, enrollVars, employees, attendance, clock, env, modelsLoaded, preload, req>>

ReconUpdate(j, id, fail) ==
  /\ job[j].pc = "updating"
  /\ id \in job[j].pending
  /\ attendance' = IF fail THEN attendance
                   ELSE ReconUpdateRow(attendance, id, job[j].closeTime)
  /\ job' = [job EXCEPT ![j].pending = @ \ {id},
                        ![j].closed = IF fail THEN @ ELSE @ + 1]
  /\ UNCHANGED <<notes, viewVars, enrollVars, employees, clock, env, modelsLoaded, preload, req>>

ReconFinish(j) ==
  /\ job[j].pc = "updating"
  /\ job[j].pending = {}
  /\ job' = [job EXCEPT ![j].pc = "done", ![j].seen = 0,
                        ![j].reported = Cardinality(job[j].records),
                        ![j].resp = TriggerResponse(j, FALSE)]
  /\ UNCHANGED <<notes, viewVars, enrollVars, employees, attendance, clock, env, modelsLoaded, preload, req>>

ReconBulkUpdate(j, fail) ==
  /\ job[j].pc = "bulk"
  /\ IF fail
     THEN /\ attendance' = attendance
          /\ job' = [job EXCEPT ![j].pc = "done", ![j].error = TRUE, ![j].seen = 0,
                                ![j].resp = TriggerResponse(j, TRUE)]
     ELSE /\ attendance' = BulkClose(attendance, job[j].records, job[j].closeTime)
          /\ job' = [job EXCEPT ![j].pc = "done", ![j].pending = {}, ![j].seen = 0,
                                ![j].closed = Cardinality(job[j].records),
                                ![j].reported = Cardinality(job[j].records),
                                ![j].resp = TriggerResponse(j, FALSE)]
  /\ UNCHANGED <<notes, viewVars, enrollVars, employees, clock, env, modelsLoaded, preload, req>>

(***************************************************************************)
(* createEmployee                                                          *)
(***************************************************************************)
\* res.status(..).json(..): the request ends; its credential id, the outcome
\* of its rollback and its response are kept.
EnrollRespond(e, resp) ==
  [IdleEnroll EXCEPT !.pc = "done", !.cred = e.cred, !.rollback = e.rollback,
                     !.resp = resp]

\* .from("employees").select("employee_id").eq("employee_id", code).maybeSingle()
ExistingEmp(emps, code) ==
  \E k \in DOMAIN emps : emps[k].present /\ emps[k].employee_id = code

Referenced(emps, c) ==
  \E k \in DOMAIN emps : emps[k].present /\ emps[k].auth_uid = c

\* Section C of createEmployee from the created credential up to its first
\* await: no image, missing canvas, loadModels() or the image decoding.
ProcessImage(e, loaded) ==
  IF e.image.kind = "none" THEN [e EXCEPT !.pc = "inserting"]
  ELSE IF ~env.canvas THEN EnrollRespond(e, Resp(400, "Server Error: Canvas not available."))
  ELSE IF loaded THEN [e EXCEPT !.pc = "decoding"]
  ELSE IF loadModels(env, loaded) = "throw"
    THEN EnrollRespond(e, Resp(400, "Models missing. Run 'node download-models.js'."))
  ELSE [e EXCEPT !.pc = "loading"]

\* Variant of EnrollCatch without the 23505 test.
EnrollCatchGeneric(why) == Resp(400, ErrStore)

\* The catch block: 409 for a uniqueness violation (23505), else 400.
EnrollCatch(why) ==
  IF why = "conflict" THEN Resp(409, ErrConflict) ELSE Resp(400, ErrStore)

EnrollStart(a, code, image, valid) ==
  /\ enroll[a].pc \in {"idle", "done"}
  /\ enroll' = [enroll EXCEPT ![a] =
       IF ~valid THEN EnrollRespond(IdleEnroll, Resp(400, "Email, password, and employee ID are required"))
       ELSE [IdleEnroll EXCEPT !.pc = "precheck", !.code = code, !.image = image]]
  /\ UNCHANGED <<notes, viewVars, employees, attendance, clock, env, modelsLoaded, preload, req, job,
                 authUsers, adminModelsLoaded>>

\* A. the pre-check; its error is not read, data is then null.
EnrollPrecheck(a, fail) ==
  /\ enroll[a].pc = "precheck"
  /\ enroll' = [enroll EXCEPT ![a] =
       IF ~fail /\ ExistingEmp(employees, enroll[a].code)
       THEN EnrollRespond(enroll[a], Resp(409, ErrExists))
       ELSE [enroll[a] EXCEPT !.pc = "creating"]]
  /\ UNCHANGED <<notes, viewVars, employees, attendance, clock, env, modelsLoaded, preload, req, job,
                 authUsers, adminModelsLoaded>>

\* Variant of EnrollCreateUser whose failed call leaves a credential behind.
EnrollCreateUserLeaky(a, fail) ==
  /\ enroll[a].pc = "creating"
  /\ CredPool \ authUsers # {}
  /\ LET c == CHOOSE x \in CredPool \ authUsers :
                 \A y \in CredPool \ authUsers : x <= y
     IN  /\ authUsers' = authUsers \cup {c}
         /\ enroll' = [enroll EXCEPT ![a] =
              IF fail THEN EnrollRespond(enroll[a], Resp(400, ErrAuth))
              ELSE ProcessImage([enroll[a] EXCEPT !.cred = c], adminModelsLoaded)]
  /\ UNCHANGED <<notes, viewVars, employees, attendance, clock, env, modelsLoaded, preload, req, job,
                 adminModelsLoaded>>

\* B. auth.admin.createUser, then section C up to its first await.
EnrollCreateUser(a, fail) ==
  /\ enroll[a].pc = "creating"
  /\ IF fail
     THEN /\ enroll' = [enroll EXCEPT ![a] = EnrollRespond(enroll[a], Resp(400, ErrAuth))]
          /\ authUsers' = authUsers
     ELSE /\ CredPool \ authUsers # {}
          /\ LET c == CHOOSE x \in CredPool \ authUsers :
                        \A y \in CredPool \ authUsers : x <= y
             IN  /\ authUsers' = authUsers \cup {c}
                 /\ enroll' = [enroll EXCEPT ![a] =
                      ProcessImage([enroll[a] EXCEPT !.cred = c], adminModelsLoaded)]
  /\ UNCHANGED <<notes, viewVars, employees, attendance, clock, env, modelsLoaded, preload, req, job,
                 adminModelsLoaded>>

EnrollLoadDone(a) ==
  /\ enroll[a].pc = "loading"
  /\ adminModelsLoaded' = TRUE
  /\ enroll' = [enroll EXCEPT ![a].pc = "decoding"]
  /\ UNCHANGED <<notes, viewVars, employees, attendance, clock, env, modelsLoaded, preload, req, job,
                 authUsers>>

\* Variant of EnrollDetect that answers a missing face without a rollback.
EnrollDetectNoRollback(a) ==
  /\ enroll[a].pc = "decoding"
  /\ enroll' = [enroll EXCEPT ![a] =
       IF enroll[a].image.kind = "bad"
         THEN EnrollRespond(enroll[a], Resp(400, ErrDecode))
       ELSE IF enroll[a].image.kind = "noface"
         THEN EnrollRespond(enroll[a], Resp(422, ErrEnrollNoFace))
       ELSE [enroll[a] EXCEPT !.pc = "inserting",
                              !.face_encoding = Some(enroll[a].image.descriptor),
                              !.is_registered = TRUE]]
  /\ UNCHANGED <<notes, viewVars, employees, attendance, clock, env, modelsLoaded, preload, req, job,
                 authUsers, adminModelsLoaded>>

\* Variant of EnrollDetect that keeps the descriptor without marking the
\* employee registered.
EnrollDetectUnregistered(a) ==
  /\ enroll[a].pc = "decoding"
  /\ enroll' = [enroll EXCEPT ![a] =
       IF enroll[a].image.kind = "bad"
         THEN EnrollRespond(enroll[a], Resp(400, ErrDecode))
       ELSE IF enroll[a].image.kind = "noface"
         THEN [enroll[a] EXCEPT !.pc = "compensating", !.why = "noface"]
       ELSE [enroll[a] EXCEPT !.pc = "inserting",
                              !.face_encoding = Some(enroll[a].image.descriptor)]]
  /\ UNCHANGED <<notes, viewVars, employees, attendance, clock, env, modelsLoaded, preload, req, job,
                 authUsers, adminModelsLoaded>>

\* loadImage and detectSingleFace.
EnrollDetect(a) ==
  /\ enroll[a].pc = "decoding"
  /\ enroll' = [enroll EXCEPT ![a] =
       IF enroll[a].image.kind = "bad"
         THEN EnrollRespond(enroll[a], Resp(400, ErrDecode))
       ELSE IF enroll[a].image.kind = "noface"
         THEN [enroll[a] EXCEPT !.pc = "compensating", !.why = "noface"]
       ELSE [enroll[a] EXCEPT !.pc = "inserting",
                              !.face_encoding = Some(enroll[a].image.descriptor),
                              !.is_registered = TRUE]]
  /\ UNCHANGED <<notes, viewVars, employees, attendance, clock, env, modelsLoaded, preload, req, job,
                 authUsers, adminModelsLoaded>>

\* The store's uniqueness constraint on employees.employee_id.
UniqueViolation(emps, code) == ExistingEmp(emps, code)

\* D. the insert: it succeeds, fails with a uniqueness violation (23505,
\* always when the employee_id is taken) or fails with another store error.
EnrollInsert(a, outcome) ==
  /\ enroll[a].pc = "inserting"
  /\ \E k \in NewIds : ~employees[k].present
  /\ outcome = "ok" => ~UniqueViolation(employees, enroll[a].code)
  /\ IF outcome # "ok"
     THEN /\ employees' = employees
          /\ enroll' = [enroll EXCEPT ![a].pc = "compensating", ![a].why = outcome]
     ELSE /\ LET k == CHOOSE x \in NewIds : ~employees[x].present
             IN  employees' = [employees EXCEPT ![k] =
                   [ present |-> TRUE, face_encoding |-> enroll[a].face_encoding,
                     employee_id |-> enroll[a].code, auth_uid |-> enroll[a].cred,
                     is_registered |-> enroll[a].is_registered ]]
          /\ enroll' = [enroll EXCEPT ![a] = EnrollRespond(enroll[a], Resp(201, Created))]
  /\ UNCHANGED <<notes, viewVars, attendance, clock, env, modelsLoaded, preload, req, job,
                 authUsers, adminModelsLoaded>>

\* Variant of EnrollCompensate whose rollback deletes nothing.
EnrollCompensateNoDelete(a, fail) ==
  /\ enroll[a].pc = "compensating"
  /\ authUsers' = authUsers
  /\ enroll' = [enroll EXCEPT ![a] =
       EnrollRespond([enroll[a] EXCEPT !.rollback = IF fail THEN "failed" ELSE "ok"],
                     IF enroll[a].why = "noface" THEN Resp(422, ErrEnrollNoFace)
                     ELSE EnrollCatch(enroll[a].why))]
  /\ UNCHANGED <<notes, viewVars, employees, attendance, clock, env, modelsLoaded, preload, req, job,
                 adminModelsLoaded>>

\* Variant of EnrollCompensate that surfaces a failed rollback.
EnrollCompensateMasking(a, fail) ==
  /\ enroll[a].pc = "compensating"
  /\ authUsers' = IF fail THEN authUsers ELSE authUsers \ {enroll[a].cred}
  /\ enroll' = [enroll EXCEPT ![a] =
       EnrollRespond([enroll[a] EXCEPT !.rollback = IF fail THEN "failed" ELSE "ok"],
                     IF fail THEN Resp(400, ErrAuth)
                     ELSE IF enroll[a].why = "noface" THEN Resp(422, ErrEnrollNoFace)
                     ELSE EnrollCatch(enroll[a].why))]
  /\ UNCHANGED <<notes, viewVars, employees, attendance, clock, env, modelsLoaded, preload, req, job,
                 adminModelsLoaded>>

\* The rollback auth.admin.deleteUser (its result is not read), then the
\* response of the failed step.
EnrollCompensate(a, fail) ==
  /\ enroll[a].pc = "compensating"
  /\ authUsers' = IF fail THEN authUsers ELSE authUsers \ {enroll[a].cred}
  /\ enroll' = [enroll EXCEPT ![a] =
       EnrollRespond([enroll[a] EXCEPT !.rollback = IF fail THEN "failed" ELSE "ok"],
                     IF enroll[a].why = "noface" THEN Resp(422, ErrEnrollNoFace)
                     ELSE EnrollCatch(enroll[a].why))]
  /\ UNCHANGED <<notes, viewVars, employees, attendance, clock, env, modelsLoaded, preload, req, job,
                 adminModelsLoaded>>

(***************************************************************************)
(* Specifications.  Spec: one request at a time over every kind of caller, *)
(* image, environment and store failure.  SpecPunctuality: check-ins at    *)
(* every clock point under both server time zones.  SpecRecon: check-in,   *)
(* check-out and the reconciliation job (both variants) interleaved.       *)
(***************************************************************************)
RequestSteps(r, fails) ==
  \/ \E fail \in fails : EmployeeTask(r, fail)
  \/ LoadModelsDone(r)
  \/ DetectionTask(r)
  \/ CheckInDecide(r)
  \/ \E fail \in fails : InsertExec(r, fail)

CheckOutSteps(r, fails) ==
  \/ \E fail \in fails : LastCheckInTask(r, fail)
  \/ CheckOutDecide(r)
  \/ \E fail \in fails : UpdateExec(r, fail)

Init == InitWith({e \in Envs : e.tz = 0 /\ ~e.fixedClose})

Next ==
  \/ \E t \in VerifyClock : Tick(t)
  \/ PreloadDone
  \/ \E u \in Users, img \in Images : CheckInStart("r1", u, img)
  \/ \E u \in Users, img \in Images : CheckOutStart("r1", u, img)
  \/ RequestSteps("r1", BOOLEAN)
  \/ CheckOutSteps("r1", BOOLEAN)
  \/ CheckInCatch("r1")
  \/ CheckOutCatch("r1")

Spec == Init /\ [][Next]_vars

InitPunctuality ==
  InitWith({e \in Envs : e.canvas /\ e.modelsExist /\ ~e.fixedClose})

NextPunctuality ==
  \/ \E t \in ClockPoints : Tick(t)
  \/ PreloadDone
  \/ \E u \in {"e1", "e2"} : CheckInStart("r1", u, MatchImage)
  \/ RequestSteps("r1", {FALSE})

SpecPunctuality == InitPunctuality /\ [][NextPunctuality]_vars

InitRecon == InitWith({e \in Envs : e.canvas /\ e.modelsExist /\ e.tz = 0})

NextRecon ==
  \/ \E t \in ReconClock : Tick(t)
  \/ PreloadDone
  \/ CheckInStart("r1", "e1", MatchImage)
  \/ CheckOutStart("r1", "e1", MatchImage)
  \/ RequestSteps("r1", {FALSE})
  \/ CheckOutSteps("r1", {FALSE})
  \/ ReconStart("manual")
  \/ \E fail \in BOOLEAN : ReconSelect("manual", fail)
  \/ \E id \in 1..MaxSessions, fail \in BOOLEAN : ReconUpdate("manual", id, fail)
  \/ ReconFinish("manual")
  \/ \E fail \in BOOLEAN : ReconBulkUpdate("manual", fail)

SpecRecon == InitRecon /\ [][NextRecon]_vars

\* SpecOverlap: the scheduled and the manually triggered run side by side.
ReconSteps(j) ==
  \/ ReconStart(j)
  \/ \E fail \in BOOLEAN : ReconSelect(j, fail)
  \/ \E id \in 1..MaxSessions, fail \in BOOLEAN : ReconUpdate(j, id, fail)
  \/ ReconFinish(j)
  \/ \E fail \in BOOLEAN : ReconBulkUpdate(j, fail)

\* The sessions already stored when the runs start: rows of yesterday and
\* of today, open or closed by a check-out one hour after the check-in.
SeedRows ==
  { [ id |-> 0, employee_id |-> "e1", check_in_time |-> t,
      check_out_time |-> c, status |-> "present",
      status_time |-> StatusTime(t, 0) ] :
    t \in { At(0, 8, 16, 0), At(1, 8, 10, 0) }, c \in { NoTime, At(1, 9, 0, 0) } }

SeedTables ==
  UNION { { [i \in 1..n |-> [f[i] EXCEPT !.id = i]] : f \in [1..n -> SeedRows] } :
          n \in 0..MaxSessions }

InitOverlap ==
  /\ employees = InitEmployees
  /\ attendance \in SeedTables
  /\ clock = At(1, 23, 30, 0)
  /\ env \in {e \in Envs : e.canvas /\ e.modelsExist /\ e.tz = 0}
  /\ modelsLoaded = TRUE
  /\ preload = "settled"
  /\ req = [r \in Requests |-> IdleReq]
  /\ job = [j \in Jobs |-> IdleJob]
  /\ authUsers = InitAuthUsers
  /\ adminModelsLoaded = FALSE
  /\ enroll = [a \in Enrollments |-> IdleEnroll]
  /\ calc = NoCalc
  /\ stats = NoStats
  /\ notes = <<>>
  /\ gate = NoGate

NextOverlap ==
  \/ \E t \in { At(1, 23, 59, 0), At(1, 23, 59, 30) } : Tick(t)
  \/ \E j \in Jobs : ReconSteps(j)

SpecOverlap == InitOverlap /\ [][NextOverlap]_vars

\* SpecEnroll: createEmployee requests side by side, under every library
\* and model environment.
EnrollSteps(a) ==
  \/ \E code \in EnrollCodes, image \in EnrollImages, valid \in BOOLEAN :
       EnrollStart(a, code, image, valid)
  \/ \E fail \in BOOLEAN : EnrollPrecheck(a, fail)
  \/ \E fail \in BOOLEAN : EnrollCreateUser(a, fail)
  \/ EnrollLoadDone(a)
  \/ EnrollDetect(a)
  \/ \E outcome \in {"ok", "conflict", "store"} : EnrollInsert(a, outcome)
  \/ \E fail \in BOOLEAN : EnrollCompensate(a, fail)

InitEnroll ==
  /\ employees = InitEmployees
  /\ attendance = <<>>
  /\ clock = At(0, 7, 59, 0)
  /\ env \in {e \in Envs : e.tz = 0 /\ ~e.fixedClose}
  /\ modelsLoaded = FALSE
  /\ preload = "settled"
  /\ req = [r \in Requests |-> IdleReq]
  /\ job = [j \in Jobs |-> IdleJob]
  /\ authUsers = InitAuthUsers
  /\ adminModelsLoaded \in {FALSE, env.canvas /\ env.modelsExist}
  /\ enroll = [a \in Enrollments |-> IdleEnroll]
  /\ calc = NoCalc
  /\ stats = NoStats
  /\ notes = <<>>
  /\ gate = NoGate

NextEnroll == \E a \in Enrollments : EnrollSteps(a)

SpecEnroll == InitEnroll /\ [][NextEnroll]_vars

(***************************************************************************)
(* The notification of the /employee middleware (server.js), started by    *)
(* resJson: settings lookup, name lookup, message and HTTP delivery.       *)
(***************************************************************************)
\* The fallback of the middleware: getHours()/getMinutes() of
\* getCambodiaTime() when the notification is composed.
NoteStatus(now) ==
  LET h == (now % DaySecs) \div 3600
      m == (now % 3600) \div 60
  IN  IF h < StartHour THEN "Early"
      ELSE IF h > StartHour \/ (h = StartHour /\ m > LateMinute) THEN "Late"
      ELSE "On Time"

\* The status line: data.status_time and data.data.status_time are not
\* fields of the body {message, data: [row]}, so the fallback decides.
StatusLine(type, now) == IF type = "checkin" THEN NoteStatus(now) ELSE ""

\* Variant of NoteSettings whose failure reverts the check-out of the row.
NoteSettingsReverting(i, outcome) ==
  /\ i \in DOMAIN notes /\ notes[i].st = "settings"
  /\ notes' = [notes EXCEPT ![i].st =
       IF outcome = "ok" THEN "name"
       ELSE IF outcome = "none" THEN "dropped" ELSE "failed"]
  /\ attendance' = IF outcome = "throw"
                   THEN [k \in DOMAIN attendance |->
                          IF attendance[k].id = notes[i].row
                          THEN [attendance[k] EXCEPT !.check_out_time = NoTime]
                          ELSE attendance[k]]
                   ELSE attendance
  /\ UNCHANGED <<viewVars, enrollVars, employees, clock, env, modelsLoaded,
                 preload, req, job>>

\* settings lookup: token and group id present, absent (return), or the
\* lookup throws into the catch block.
NoteSettings(i, outcome) ==
  /\ i \in DOMAIN notes /\ notes[i].st = "settings"
  /\ notes' = [notes EXCEPT ![i].st =
       IF outcome = "ok" THEN "name"
       ELSE IF outcome = "none" THEN "dropped" ELSE "failed"]
  /\ attendance' = attendance
  /\ UNCHANGED <<viewVars, enrollVars, employees, clock, env, modelsLoaded,
                 preload, req, job>>

\* name lookup, status line and https.request(...).end(); a throw goes to
\* the catch block.
NoteSend(i, throw) ==
  /\ i \in DOMAIN notes /\ notes[i].st = "name"
  /\ notes' = [notes EXCEPT ![i] =
       IF throw THEN [notes[i] EXCEPT !.st = "failed"]
       ELSE [notes[i] EXCEPT !.st = "sent", !.status = StatusLine(notes[i].type, clock)]]
  /\ UNCHANGED <<viewVars, enrollVars, employees, attendance, clock, env, modelsLoaded,
                 preload, req, job>>

\* The HTTP delivery ends; its error is logged by request.on('error').
NoteDelivery(i, ok) ==
  /\ i \in DOMAIN notes /\ notes[i].st = "sent"
  /\ notes' = [notes EXCEPT ![i].st = IF ok THEN "delivered" ELSE "lost"]
  /\ UNCHANGED <<viewVars, enrollVars, employees, attendance, clock, env, modelsLoaded,
                 preload, req, job>>

NoteSteps ==
  \E i \in 1..MaxNotes :
    \/ \E outcome \in {"ok", "none", "throw"} : NoteSettings(i, outcome)
    \/ \E throw \in BOOLEAN : NoteSend(i, throw)
    \/ \E ok \in BOOLEAN : NoteDelivery(i, ok)

InitNotify ==
  InitWith({e \in Envs : e.canvas /\ e.modelsExist /\ e.tz = 0 /\ ~e.fixedClose})

NextNotify ==
  \/ \E t \in { At(0, 8, 15, 30), At(0, 8, 16, 0) } : Tick(t)
  \/ PreloadDone
  \/ /\ Len(notes) < MaxNotes
     /\ \E img \in {MatchImage, [kind |-> "noface", descriptor |-> <<>>]} :
          CheckInStart("r1", "e1", img)
  \/ /\ Len(notes) < MaxNotes
     /\ CheckOutStart("r1", "e1", MatchImage)
  \/ RequestSteps("r1", BOOLEAN)
  \/ CheckOutSteps("r1", BOOLEAN)
  \/ NoteSteps

SpecNotify == InitNotify /\ [][NextNotify]_vars

(***************************************************************************)
(* One check-in or check-out and one enrollment, each run to its response. *)
(* The steps of a request in flight are fair: every store, auth and        *)
(* library call settles and the event loop runs each continuation.         *)
(***************************************************************************)
OneRequestSteps(r) ==
  \/ RequestSteps(r, BOOLEAN)
  \/ CheckOutSteps(r, BOOLEAN)
  \/ CheckInCatch(r)
  \/ CheckOutCatch(r)

OneEnrollSteps(a) ==
  \/ \E fail \in BOOLEAN : EnrollPrecheck(a, fail)
  \/ \E fail \in BOOLEAN : EnrollCreateUser(a, fail)
  \/ EnrollLoadDone(a)
  \/ EnrollDetect(a)
  \/ \E outcome \in {"ok", "conflict", "store"} : EnrollInsert(a, outcome)
  \/ \E fail \in BOOLEAN : EnrollCompensate(a, fail)

InitTerminate ==
  /\ employees = InitEmployees
  /\ attendance \in {<<>>, <<NewRow(<<>>, "e1", At(0, 7, 59, 0), "Early")>>}
  /\ clock = At(0, 8, 16, 0)
  /\ env \in {e \in Envs : e.tz = 0 /\ ~e.fixedClose}
  /\ modelsLoaded \in {FALSE, env.canvas /\ env.modelsExist}
  /\ preload = "settled"
  /\ req = [r \in Requests |-> IdleReq]
  /\ job = [j \in Jobs |-> IdleJob]
  /\ authUsers = InitAuthUsers
  /\ adminModelsLoaded \in {FALSE, env.canvas /\ env.modelsExist}
  /\ enroll = [a \in Enrollments |-> IdleEnroll]
  /\ calc = NoCalc
  /\ stats = NoStats
  /\ notes = <<>>
  /\ gate = NoGate

NextTerminate ==
  \/ /\ req["r1"].pc = "idle"
     /\ \E u \in {"e1", "e4", NoUser}, img \in Images : CheckInStart("r1", u, img)
  \/ /\ req["r1"].pc = "idle"
     /\ \E u \in {"e1", "e4", NoUser}, img \in Images : CheckOutStart("r1", u, img)
  \/ OneRequestSteps("r1")
  \/ /\ enroll["a1"].pc = "idle"
     /\ \E code \in EnrollCodes, image \in EnrollImages, valid \in BOOLEAN :
          EnrollStart("a1", code, image, valid)
  \/ OneEnrollSteps("a1")

SpecTerminate ==
  /\ InitTerminate /\ [][NextTerminate]_vars
  /\ WF_vars(OneRequestSteps("r1"))
  /\ WF_vars(OneEnrollSteps("a1"))

(***************************************************************************)
(* The auth middleware (middleware/auth.js)                                *)
(***************************************************************************)

\* Authorization headers: absent, a scheme alone, a token without a scheme,
\* an empty token, another scheme (the scheme word is never inspected), a
\* trailing word, and tokens that verify (with or without a role) or not.
Headers ==
  { <<>>, <<"Bearer">>, <<"t-admin">>, <<"Bearer", "">>, <<"Bearer", "t-admin">>,
    <<"Basic", "t-employee">>, <<"Bearer", "t-manager", "x">>,
    <<"Bearer", "t-employee">>, <<"Bearer", "t-manager">>, <<"Bearer", "t-norole">>,
    <<"Bearer", "t-forged">>, <<"Bearer", "t-expired">> }

\* req.headers.authorization?.split(" ")[1]; "" stands for undefined too.
TokenOf(header) == IF Len(header) >= 2 THEN header[2] ELSE ""

\* jwt.verify: the decoded payload, or a throw.
jwtVerify(token) ==
  IF token = "t-admin" THEN [ok |-> TRUE, role |-> "admin"]
  ELSE IF token = "t-employee" THEN [ok |-> TRUE, role |-> "employee"]
  ELSE IF token = "t-manager" THEN [ok |-> TRUE, role |-> "manager"]
  ELSE IF token = "t-norole" THEN [ok |-> TRUE, role |-> NoRole]
  ELSE [ok |-> FALSE, role |-> NoRole]

\* Variant of RoleAllowed that lets a token without a role through.
RoleAllowedLax(allowedRoles, role) ==
  allowedRoles = {} \/ role \in allowedRoles \/ role = NoRole

\* !(allowedRoles.length > 0 && !allowedRoles.includes(req.user.role))
RoleAllowed(allowedRoles, role) == allowedRoles = {} \/ role \in allowedRoles

\* The middleware; nextThrows: the handler chain throws synchronously
\* inside next(), which the middleware's catch answers.
Authenticate(header, allowedRoles, nextThrows) ==
  /\ gate' =
       LET token == TokenOf(header)
           decoded == jwtVerify(token)
           base == [NoGate EXCEPT !.st = "done", !.header = header,
                                  !.allowedRoles = allowedRoles]
       IN  IF token = "" THEN [base EXCEPT !.resp = Resp(401, "No token provided")]
           ELSE IF ~decoded.ok THEN [base EXCEPT !.resp = Resp(401, "Invalid token")]
           ELSE IF ~RoleAllowed(allowedRoles, decoded.role)
             THEN [base EXCEPT !.resp = Resp(403, "Insufficient permissions")]
           ELSE IF nextThrows
             THEN [base EXCEPT !.next = TRUE, !.resp = Resp(401, "Invalid token")]
           ELSE [base EXCEPT !.next = TRUE]
  /\ UNCHANGED <<employees, attendance, clock, env, modelsLoaded, preload, req, job,
                 enrollVars, calc, stats, notes>>

NextAuth ==
  \E header \in Headers, allowedRoles \in SUBSET {"admin", "employee", "manager"}, nextThrows \in BOOLEAN :
    Authenticate(header, allowedRoles, nextThrows)

SpecAuth ==
  /\ InitWith({e \in Envs : e.canvas /\ e.modelsExist /\ e.tz = 0 /\ ~e.fixedClose})
  /\ [][NextAuth]_vars

(***************************************************************************)
(* getEuclideanDistance applied to a pair of vectors                       *)
(***************************************************************************)
Distance ==
  /\ calc.st = "input"
  /\ calc' = [calc EXCEPT !.st = "done", !.out = getEuclideanDistance(calc.a, calc.b)]
  /\ UNCHANGED <<employees, attendance, clock, env, modelsLoaded, preload, req, job,
                 enrollVars, stats, notes, gate>>

InitDistance ==
  /\ employees = InitEmployees
  /\ attendance = <<>>
  /\ clock = At(0, 7, 59, 0)
  /\ env \in {e \in Envs : e.canvas /\ e.modelsExist /\ e.tz = 0 /\ ~e.fixedClose}
  /\ modelsLoaded = TRUE
  /\ preload = "settled"
  /\ req = [r \in Requests |-> IdleReq]
  /\ job = [j \in Jobs |-> IdleJob]
  /\ authUsers = InitAuthUsers
  /\ adminModelsLoaded = FALSE
  /\ enroll = [a \in Enrollments |-> IdleEnroll]
  /\ calc \in [st : {"input"}, a : Embeddings, b : Embeddings, out : {0}]
  /\ stats = NoStats
  /\ notes = <<>>
  /\ gate = NoGate

NextDistance == Distance

SpecDistance == InitDistance /\ [][NextDistance]_vars

(***************************************************************************)
(* Statistics handlers                                                     *)
(***************************************************************************)
\* getAttendanceHistory of part_001: now is getCambodiaTime().
GetAttendanceHistory(user, fail) ==
  /\ stats' =
       IF user = NoUser
         THEN [NoStats EXCEPT !.view = "single", !.user = user, !.status = 401]
       ELSE IF fail THEN [NoStats EXCEPT !.view = "single", !.user = user, !.status = 500]
       ELSE LET now == clock
                startOfMonth == StartOfMonth(now, env.tz)
                workingDays == WorkingDays(startOfMonth, now)
                present == Cardinality(UniquePresent(attendance, user, startOfMonth, now))
            IN  [ view |-> "single", user |-> user, status |-> 200,
                  absent |-> AbsentCount(workingDays, present),
                  workingDays |-> workingDays, present |-> present ]
  /\ UNCHANGED <<employees, attendance, clock, env, modelsLoaded, preload, req, job,
                 enrollVars, calc, notes, gate>>

\* getAllAttendanceHistory of adminController.js: now is new Date().
GetAllAttendanceHistory(fail) ==
  /\ stats' =
       IF fail THEN [NoStats EXCEPT !.view = "org", !.status = 500]
       ELSE LET now == RealNow(clock)
                startOfMonth == StartOfMonth(now, env.tz)
                totalEmployees == TotalEmployees(employees)
                workingDays == AllWorkingDays(startOfMonth, now, env.tz)
                present ==
                  Cardinality(AllUniquePresent(attendance, startOfMonth, now, env.tz))
            IN  [ view |-> "org", user |-> NoUser, status |-> 200,
                  absent |-> AbsentCount(totalEmployees * workingDays, present),
                  workingDays |-> workingDays, present |-> present ]
  /\ UNCHANGED <<employees, attendance, clock, env, modelsLoaded, preload, req, job,
                 enrollVars, calc, notes, gate>>

\* The instants at which the statistics are asked for, and the check-in
\* times of the stored sessions: day 29 is the last day of a month, day 30
\* a Saturday, day 31 a Sunday, day 32 a Monday.
StatTimes ==
  { At(29, 18, 0, 0), At(30, 9, 0, 0), At(32, 9, 0, 0), At(32, 9, 30, 0),
    At(32, 19, 0, 0) }

StatRows ==
  { [ id |-> 0, employee_id |-> u, check_in_time |-> t,
      check_out_time |-> NoTime, status |-> "present",
      status_time |-> StatusTime(t, 0) ] :
    u \in {"e1", "e2"}, t \in StatTimes }

\* Tables in insertion order, which is the order of the check-in times.
StatTables ==
  UNION { { [i \in 1..n |-> [f[i] EXCEPT !.id = i]] :
            f \in { g \in [1..n -> StatRows] :
                      \A i \in 1..n : \A k \in 1..n :
                        i < k => g[i].check_in_time <= g[k].check_in_time } } :
          n \in 0..MaxSessions }

InitStats ==
  /\ employees = InitEmployees
  /\ attendance \in StatTables
  /\ clock \in { At(29, 20, 0, 0), At(30, 10, 0, 0), At(32, 10, 0, 0), At(32, 18, 0, 0) }
  /\ env \in {e \in Envs : e.canvas /\ e.modelsExist /\ ~e.fixedClose}
  /\ modelsLoaded = TRUE
  /\ preload = "settled"
  /\ req = [r \in Requests |-> IdleReq]
  /\ job = [j \in Jobs |-> IdleJob]
  /\ authUsers = InitAuthUsers
  /\ adminModelsLoaded = FALSE
  /\ enroll = [a \in Enrollments |-> IdleEnroll]
  /\ calc = NoCalc
  /\ stats = NoStats
  /\ notes = <<>>
  /\ gate = NoGate

NextStats ==
  \/ \E u \in {"e1", "e2", NoUser}, fail \in BOOLEAN : GetAttendanceHistory(u, fail)
  \/ \E fail \in BOOLEAN : GetAllAttendanceHistory(fail)

SpecStats == InitStats /\ [][NextStats]_vars

(***************************************************************************)
(* Properties                                                              *)
(***************************************************************************)
Rows == DOMAIN attendance

\* The four verification conditions, read from the request's own task results.
Verified(q) ==
  /\ q.emp.st = "resolved" /\ q.emp.found /\ ~q.emp.error
  /\ q.emp.enc.some
  /\ q.det.st = "fulfilled" /\ q.det.face
  /\ getEuclideanDistance(q.emp.enc, Some(q.det.descriptor)) <= Threshold

\* The punctuality the specification assigns to a check-in time.
Punctuality(t) ==
  LET tod == t % DaySecs
  IN  IF tod < HMS(8, 0, 0) THEN "Early"
      ELSE IF tod <= HMS(8, 15, 0) THEN "On Time"
      ELSE "Late"

\* C1 (I1): in every reachable state each identity has at most one session
\* with closed_at = null.
C1_SingleOpenSession ==
  \A u \in EmpIds : Cardinality(OpenIds(attendance, u)) <= 1

\* C2: a session row is inserted or closed by a request only if that request
\* found the identity, its stored embedding, a face, and a distance <= 0.5;
\* and a distance exactly equal to the threshold is accepted as a match.
C2_WriteOnlyIfVerified ==
  [][ /\ attendance' # attendance =>
           \E r \in Requests : /\ req[r].pc \in {"inserting", "updating"}
                               /\ req'[r].pc = "done"
                               /\ Verified(req[r])
      /\ \A r \in Requests :
           ( /\ req[r].pc = "waiting" /\ AllFulfilled(req[r])
             /\ req[r].emp.found /\ req[r].emp.enc.some /\ req[r].det.face
             /\ getEuclideanDistance(req[r].emp.enc,
                                     Some(req[r].det.descriptor)) = Threshold
             /\ req'[r] # req[r] )
           => req'[r].resp.status # 403 ]_vars

\* C2 witness: a request about to insert after a match at exactly 0.5.
C2_Witness ==
  \E r \in Requests :
    /\ req[r].pc = "inserting"
    /\ getEuclideanDistance(req[r].emp.enc, Some(req[r].det.descriptor)) = Threshold

\* C3: once a session's closed_at is set it is never written again.
C3_ClosedIsTerminal ==
  [][ \A i \in Rows :
        attendance[i].check_out_time # NoTime
          => attendance'[i].check_out_time = attendance[i].check_out_time ]_vars

\* C4 (I2): every session whose closed_at is present has closed_at >= opened_at.
C4_ClosedAfterOpened ==
  \A i \in Rows :
    attendance[i].check_out_time # NoTime
      => attendance[i].check_out_time >= attendance[i].check_in_time

\* C5: the punctuality of every session is Early before 08:00, OnTime from
\* 08:00 to 08:15 inclusive, Late after 08:15, of its local check-in time.
C5_PunctualityClassification ==
  \A i \in Rows : attendance[i].status_time = Punctuality(attendance[i].check_in_time)

\* C6: check-out and reconciliation never change the punctuality, opened_at
\* or identity reference of any session, and never modify an identity row.
C6_CloseFrame ==
  [][ ( \/ \E r \in Requests : req[r].kind = "checkout" /\ req'[r] # req[r]
        \/ job' # job )
      => /\ employees' = employees
         /\ Len(attendance') = Len(attendance)
         /\ \A i \in Rows :
              /\ attendance'[i].status_time = attendance[i].status_time
              /\ attendance'[i].check_in_time = attendance[i].check_in_time
              /\ attendance'[i].employee_id = attendance[i].employee_id
              /\ attendance'[i].id = attendance[i].id ]_vars

\* C6 witness: a check-out has succeeded and a reconciliation run has closed
\* a session whose punctuality is not the one of its closing time.
C6_Witness ==
  /\ \E r \in Requests : req[r].kind = "checkout" /\ req[r].resp.status = 200
  /\ job["manual"].closed > 0
  /\ \E i \in Rows : /\ attendance[i].check_out_time # NoTime
                     /\ attendance[i].status_time
                          # StatusTime(attendance[i].check_out_time, 0)

\* C7: a check-out of a verified identity whose lookup succeeds and that has
\* no open session answers NoOpenSession and changes no session row.
C7_NoOpenSession ==
  [][ \A r \in Requests :
        ( /\ req[r].kind = "checkout" /\ req[r].pc = "waiting"
          /\ AllFulfilled(req[r]) /\ Verified(req[r])
          /\ ~req[r].find.error
          /\ OpenIds(attendance, req[r].user) = {}
          /\ req'[r] # req[r] )
        => /\ req'[r].pc = "done"
           /\ req'[r].resp = Resp(400, ErrNoOpenSession)
           /\ attendance' = attendance ]_vars

\* C7 witness: a check-out was answered NoOpenSession while sessions exist.
C7_Witness ==
  /\ \E r \in Requests :
       req[r].kind = "checkout" /\ req[r].resp = Resp(400, ErrNoOpenSession)
  /\ Len(attendance) > 0

\* C8: every step of a check-in or check-out request other than its session
\* write, in particular every rejection, leaves both tables unchanged.
C8_VerificationReadOnly ==
  [][ \A r \in Requests :
        (req'[r] # req[r] /\ req[r].pc \notin {"inserting", "updating"})
          => attendance' = attendance /\ employees' = employees ]_vars

\* C8 witness: a mismatch was rejected while the session table is not empty.
C8_Witness ==
  /\ \E r \in Requests : req[r].resp = Resp(403, ErrMismatch)
  /\ Len(attendance) > 0

\* The error of the first failing check in the fixed order, for a request
\* that is answered while waiting for its tasks.
FirstFailing(q) ==
  LET exists == IF q.emp.st = "resolved" THEN q.emp.found /\ ~q.emp.error
                ELSE employees[q.user].present
      enc == IF q.emp.st = "resolved" THEN q.emp.enc
             ELSE employees[q.user].face_encoding
  IN  IF ~exists THEN Resp(404, ErrNotFound)
      ELSE IF ~enc.some THEN Resp(400, ErrNotRegistered)
      ELSE IF q.det.st = "rejected" THEN Resp(500, q.det.error)
      ELSE IF ~q.det.face THEN Resp(400, ErrNoFace)
      ELSE IF getEuclideanDistance(enc, Some(q.det.descriptor)) > Threshold
        THEN Resp(403, ErrMismatch)
      ELSE IF q.find.error THEN Resp(500, ErrStore)
      ELSE Resp(400, ErrNoOpenSession)

\* C9: the error returned is that of the first failing check in the order
\* identity exists, embedding registered, face extracted, match, open session.
C9_FirstFailingCheck ==
  [][ \A r \in Requests :
        (req[r].pc = "waiting" /\ req'[r].pc = "done")
          => req'[r].resp = FirstFailing(req[r]) ]_vars

\* C10: no response is produced while one of the launched tasks is pending.
C10_AllTasksJoined ==
  [][ \A r \in Requests :
        (req[r].pc = "waiting" /\ req'[r].pc = "done")
          => /\ req[r].emp.st = "resolved"
             /\ req[r].find.st \in {"none", "resolved"}
             /\ req[r].det.st \in {"fulfilled", "rejected"} ]_vars

\* The responses of the six verification rejections.
Rejections ==
  [ IdentityNotFound |-> Resp(404, ErrNotFound),
    BiometricNotEnrolled |-> Resp(400, ErrNotRegistered),
    NoFaceDetected |-> Resp(400, ErrNoFace),
    BiometricMismatch |-> Resp(403, ErrMismatch),
    NoOpenSession |-> Resp(400, ErrNoOpenSession),
    ExtractionUnavailable |-> Resp(500, ErrUnavailable) ]

\* C11: the six verification rejections are pairwise different responses,
\* each is returned only for its own cause, and an extraction that found no
\* face is answered NoFaceDetected, never with the generic 500 failure.
C11_DistinctRejections ==
  [][ /\ \A a, b \in DOMAIN Rejections : a # b => Rejections[a] # Rejections[b]
      /\ \A r \in Requests :
           (req[r].pc = "waiting" /\ req'[r].pc = "done") =>
             LET q == req[r]
                 out == req'[r].resp
             IN  /\ out = Rejections.IdentityNotFound
                      => q.emp.st = "resolved" /\ (q.emp.error \/ ~q.emp.found)
                 /\ out = Rejections.BiometricNotEnrolled
                      => q.emp.found /\ ~q.emp.enc.some
                 /\ out = Rejections.NoFaceDetected
                      => q.det.st = "fulfilled" /\ ~q.det.face
                 /\ out = Rejections.BiometricMismatch
                      => /\ q.det.face
                         /\ getEuclideanDistance(q.emp.enc, Some(q.det.descriptor))
                              > Threshold
                 /\ out = Rejections.NoOpenSession
                      => q.kind = "checkout" /\ Verified(q) /\ q.find.id = 0
                 /\ out = Rejections.ExtractionUnavailable
                      => q.det.st = "rejected" /\ ~env.canvas
                 /\ ( q.det.st = "fulfilled" /\ ~q.det.face
                      /\ q.emp.found /\ q.emp.enc.some /\ q.emp.st = "resolved" )
                      => out = Rejections.NoFaceDetected ]_vars

\* C11 witness: a request whose extraction found no face was answered
\* NoFaceDetected.
C11_Witness ==
  \E r \in Requests : req[r].resp = Rejections.NoFaceDetected

\* C12: a successful check-out sets closed_at on exactly one row, the one
\* its own lookup found (a row of the requesting identity that was open
\* with the greatest opened_at), and leaves every other row unchanged.
C12_CheckOutOneRow ==
  [][ \A r \in Requests :
        /\ ( req[r].find.st = "pending" /\ req'[r].find.st = "resolved"
             /\ req'[r].find.id # 0 ) =>
               \E i \in Rows :
                 /\ attendance[i].id = req'[r].find.id
                 /\ attendance[i].employee_id = req[r].user
                 /\ attendance[i].check_out_time = NoTime
                 /\ \A k \in OpenIds(attendance, req[r].user) :
                      attendance[k].check_in_time <= attendance[i].check_in_time
        /\ ( req[r].pc = "updating" /\ req'[r].resp.status = 200 ) =>
               /\ Len(attendance') = Len(attendance)
               /\ \A i \in Rows :
                    IF attendance[i].id = req[r].find.id
                    THEN /\ attendance'[i].check_out_time = req[r].time
                         /\ attendance[i].employee_id = req[r].user
                    ELSE attendance'[i] = attendance[i] ]_vars

\* C12 witness: a check-out succeeded while another session of the same
\* identity stays open.
C12_Witness ==
  /\ \E r \in Requests : req[r].kind = "checkout" /\ req[r].resp.status = 200
  /\ \E i, k \in Rows :
       /\ attendance[i].employee_id = attendance[k].employee_id
       /\ attendance[i].check_out_time # NoTime
       /\ attendance[k].check_out_time = NoTime

\* C13: the row a check-in inserts carries the timestamp the request
\* captured, and its punctuality is the classification of that timestamp.
C13_PunctualityOfStoredTime ==
  [][ \A r \in Requests :
        (req[r].pc = "inserting" /\ req'[r].resp.status = 200) =>
          LET row == attendance'[Len(attendance')]
          IN  /\ row.check_in_time = req[r].time
              /\ row.status_time = Punctuality(row.check_in_time) ]_vars

\* A run's step in which its selection executes without a store failure.
Selects(j) ==
  job[j].pc = "selecting" /\ job'[j].pc # "selecting" /\ ~job'[j].error

\* A run whose selection and row updates all succeeded.
CleanRun(jr) ==
  jr.pc = "done" /\ ~jr.error /\ jr.closed = Cardinality(jr.records)

DayOf(t) == t \div DaySecs

\* The step in which run j completes.
Completes(j) == job[j].pc \in {"selecting", "updating", "bulk"} /\ job'[j].pc = "done"

\* C15: when a run-time run completes without a store failure and no row
\* was inserted since it started, no session opened on the run's day is
\* open and every row it closed carries the run's run time.
C15_DayClosedAtRunTime ==
  [][ \A j \in Jobs :
        ( /\ Completes(j) /\ CleanRun(job'[j])
          /\ Len(attendance') = job[j].seen
          /\ ~env.fixedClose ) =>
          /\ \A i \in DOMAIN attendance' :
               DayOf(attendance'[i].check_in_time) = DayOf(job[j].now)
                 => attendance'[i].check_out_time # NoTime
          /\ \A i \in DOMAIN attendance' :
               attendance'[i].id \in job'[j].records
                 => attendance'[i].check_out_time = job[j].now ]_vars

\* C16: one failed update costs at most one selected row: in a step of a
\* run, at most one row leaves the run's pending set without being closed.
C16_RowFailureIsolated ==
  [][ \A j \in Jobs :
        Cardinality({ id \in job[j].pending :
                        /\ job'[j].pc = "done" \/ id \notin job'[j].pending
                        /\ \E i \in DOMAIN attendance' :
                             /\ attendance'[i].id = id
                             /\ attendance'[i].check_out_time = NoTime }) <= 1 ]_vars

\* C17: the count a completed run reports equals the number of its row
\* updates that succeeded.
C17_ReportedCount ==
  \A j \in Jobs :
    (job[j].pc = "done" /\ job[j].reported # 0 - 1) => job[j].reported = job[j].closed

\* C18: a failed selection modifies no session, ends the run without a
\* retry, and the manual trigger's caller receives a failure.
C18_SelectFailureReported ==
  [][ \A j \in Jobs :
        (job[j].pc = "selecting" /\ job'[j].error) =>
          /\ attendance' = attendance
          /\ job'[j].pc = "done"
          /\ j = "manual" => job'[j].resp.status >= 400 ]_vars

\* C19: when two runs that selected common rows have both completed with
\* every update successful, the rows they selected all carry the closing
\* time of one of the two runs.
C19_OverlapAsSingleRun ==
  ( /\ \A j \in Jobs : CleanRun(job[j])
    /\ job["cron"].records \cap job["manual"].records # {} ) =>
      \E j \in Jobs :
        \A i \in DOMAIN attendance :
          attendance[i].id \in job["cron"].records \cup job["manual"].records
            => attendance[i].check_out_time = job[j].closeTime

\* The step in which enrollment a produces its response.
EnrollCompletes(a) == enroll[a].pc \notin {"idle", "done"} /\ enroll'[a].pc = "done"

\* C20: when an enrollment completes, the credential it created, if it
\* still exists, is referenced by an Identity row.
C20_NoOrphanCredential ==
  [][ \A a \in Enrollments :
        ( /\ EnrollCompletes(a)
          /\ enroll'[a].cred # NoCred
          /\ enroll'[a].cred \in authUsers' )
          => Referenced(employees', enroll'[a].cred) ]_vars

\* C21: an enrollment whose image yields no face answers NoFaceDetected
\* only after its rollback ran; no Identity row is inserted and, the
\* rollback having succeeded, its credential is gone.
C21_NoFaceRollsBack ==
  [][ \A a \in Enrollments :
        ( /\ EnrollCompletes(a)
          /\ enroll[a].image.kind = "noface"
          /\ enroll[a].pc \in {"decoding", "compensating"} ) =>
          /\ enroll'[a].resp = Resp(422, ErrEnrollNoFace)
          /\ employees' = employees
          /\ ~Referenced(employees', enroll[a].cred)
          /\ enroll'[a].rollback \in {"ok", "failed"}
          /\ enroll'[a].rollback = "ok" => enroll[a].cred \notin authUsers' ]_vars

\* C21 witness: an enrollment answered NoFaceDetected and its credential
\* is deleted.
C21_Witness ==
  \E a \in Enrollments :
    /\ enroll[a].resp = Resp(422, ErrEnrollNoFace)
    /\ enroll[a].rollback = "ok"
    /\ enroll[a].cred \in CredPool \ authUsers

C23_RollbackFailureNotSurfaced ==
  [][ \A a \in Enrollments :
        ( EnrollCompletes(a) /\ enroll'[a].rollback = "failed" ) =>
          enroll'[a].resp =
            IF enroll[a].why = "noface" THEN Resp(422, ErrEnrollNoFace)
            ELSE IF enroll[a].why = "conflict" THEN Resp(409, ErrConflict)
            ELSE Resp(400, ErrStore) ]_vars

\* C23 witness: a rollback failed and the answer is NoFaceDetected.
C23_Witness ==
  \E a \in Enrollments :
    /\ enroll[a].rollback = "failed"
    /\ enroll[a].resp = Resp(422, ErrEnrollNoFace)
    /\ enroll[a].cred \in authUsers

\* C24: an enrollment rejected by the pre-check, or whose createUser
\* failed, created no credential and no Identity row and ran no rollback.
C24_EarlyRejectionCreatesNothing ==
  [][ \A a \in Enrollments :
        ( /\ EnrollCompletes(a)
          /\ enroll'[a].resp \in {Resp(409, ErrExists), Resp(400, ErrAuth)} ) =>
          /\ authUsers' = authUsers
          /\ employees' = employees
          /\ enroll'[a].cred = NoCred
          /\ enroll'[a].rollback = "" ]_vars

\* C24 witness: one enrollment was rejected by the pre-check and another
\* by createUser, with no credential created.
C24_Witness ==
  /\ \E a \in Enrollments : enroll[a].resp = Resp(409, ErrExists)
  /\ \E a \in Enrollments : enroll[a].resp = Resp(400, ErrAuth)
  /\ authUsers = InitAuthUsers

\* The Identity rows carrying an employee code.
RowsOfCode(emps, code) ==
  {k \in DOMAIN emps : emps[k].present /\ emps[k].employee_id = code}

\* C25: no employee code is carried by two Identity rows; an enrollment
\* that passed the pre-check and whose insert meets a row with its code
\* inserts nothing, answers Conflict and, the rollback having succeeded,
\* its credential is gone.
C25_ConcurrentSameCode ==
  [][ /\ \A code \in EnrollCodes : Cardinality(RowsOfCode(employees', code)) <= 1
      /\ \A a \in Enrollments :
           ( /\ enroll[a].pc = "inserting" /\ enroll'[a] # enroll[a]
             /\ RowsOfCode(employees, enroll[a].code) # {} ) =>
             /\ employees' = employees
             /\ enroll'[a].pc = "compensating"
      /\ \A a \in Enrollments :
           ( /\ EnrollCompletes(a) /\ enroll[a].pc = "compensating"
             /\ enroll[a].why = "conflict" ) =>
             /\ enroll'[a].resp = Resp(409, ErrConflict)
             /\ ~Referenced(employees', enroll[a].cred)
             /\ enroll'[a].rollback = "ok" => enroll[a].cred \notin authUsers' ]_vars

\* C25 witness: of two enrollments with the new code that both passed the
\* pre-check, one created the row and the other answered Conflict with its
\* credential deleted.
C25_Witness ==
  \E a, b \in Enrollments :
    /\ enroll[a].resp = Resp(201, Created)
    /\ enroll[b].resp = Resp(409, ErrConflict)
    /\ enroll[b].rollback = "ok" /\ enroll[b].cred \in CredPool \ authUsers
    /\ Cardinality(RowsOfCode(employees, "c9")) = 1
    /\ \E k \in RowsOfCode(employees, "c9") : employees[k].auth_uid = enroll[a].cred

\* The loads of the models in progress: the start-up preload and the first
\* requests' own loadModels() calls.
LoadsInProgress ==
  Cardinality({r \in Requests : req[r].det.st = "loading"})
    + (IF preload = "loading" THEN 1 ELSE 0)

\* C26: at most one load of the models is in progress at any time.
C26_SingleModelLoad == LoadsInProgress <= 1

\* The pair of vectors a request's match test is about: the stored
\* encoding and the descriptor of the detected face.
StoredOf(q) == q.emp.enc
LiveOf(q) == IF q.det.face THEN Some(q.det.descriptor) ELSE Absent
Unmatchable(a, b) == ~a.some \/ ~b.some \/ Len(a.v) # Len(b.v)

C28_DistanceSymmetricZero ==
  ( /\ calc.st = "done" /\ calc.a.some /\ calc.b.some
    /\ Len(calc.a.v) = Len(calc.b.v) ) =>
    /\ calc.out = getEuclideanDistance(calc.b, calc.a)
    /\ calc.a = calc.b => calc.out = 0

\* C28 witness: the distance of two different vectors of full length has
\* been computed, and it is 5 for <<0, 0>> and <<3, 4>>.
C28_Witness ==
  /\ calc.st = "done"
  /\ calc.a = Some(<<0, 0>>) /\ calc.b = Some(<<3, 4>>)
  /\ calc.out = 5

\* C29: the reported absent value is max(0, expected - present), expected
\* being workingDays for one identity and workingDays times the number of
\* identities for the organization; it is never negative.
C29_AbsentNeverNegative ==
  stats.status = 200 =>
    LET expected == IF stats.view = "single" THEN stats.workingDays
                    ELSE stats.workingDays * Cardinality({k \in EmpKeys : employees[k].present})
    IN  /\ stats.absent >= 0
        /\ expected >= stats.present => stats.absent = expected - stats.present
        /\ expected < stats.present => stats.absent = 0

\* C29 witness: on Saturday the 1st an identity with a session has more
\* present days than working days and zero absences.
C29_Witness ==
  /\ stats.status = 200 /\ stats.view = "single"
  /\ stats.present > stats.workingDays
  /\ stats.absent = 0

\* The calendar dates, on the wall clock, of user's sessions opened from
\* the 1st of now's month through now.
MonthToDate(att, user, now) ==
  { DayOf(att[i].check_in_time) :
      i \in { k \in DOMAIN att :
                /\ att[k].employee_id = user
                /\ DayOf(att[k].check_in_time) >= (DayOf(now) \div DaysInMonth) * DaysInMonth
                /\ att[k].check_in_time <= now } }

\* C30: the single-identity view's present value is the number of calendar
\* dates on which the identity opened a session from the 1st of the month
\* through now.
C30_PresentDaysMonthToDate ==
  ( stats.status = 200 /\ stats.view = "single" ) =>
    stats.present = Cardinality(MonthToDate(attendance, stats.user, clock))

\* The calendar days from the 1st of the month of day through day whose
\* weekday is not in off.
DaysCounted(day, off) ==
  { d \in ((day \div DaysInMonth) * DaysInMonth)..day : ((d + Weekday0) % 7) \notin off }

\* C31: workingDays is the number of calendar days from the 1st of now's
\* month through now's day, both included, whose weekday is not excluded
\* (Sunday and Saturday for one identity, on the wall clock; Sunday for the
\* organization, on the server's calendar).
C31_WorkingDaysInclusive ==
  stats.status = 200 =>
    IF stats.view = "single"
    THEN stats.workingDays = Cardinality(DaysCounted(DayOf(clock), {0, 6}))
    ELSE stats.workingDays =
           Cardinality(DaysCounted(DayOf(RealNow(clock) + env.tz * 3600), {0}))

\* C36: for the same now the workingDays reported for one identity is the
\* workingDays the organization-wide computation yields.
C36_SameWorkingDays ==
  ( stats.status = 200 /\ stats.view = "single" ) =>
    stats.workingDays = AllWorkingDays(StartOfMonth(clock, env.tz), clock, env.tz)

\* C33: the Identity row an enrollment inserts has is_registered true
\* exactly when it carries a face encoding: with a face image the row holds
\* the image's descriptor and is registered, without an image it holds no
\* encoding and is not registered.
C33_RegisteredIffEmbedding ==
  [][ \A a \in Enrollments :
        ( enroll[a].pc = "inserting" /\ enroll'[a].resp = Resp(201, Created) ) =>
          \E k \in NewIds :
            /\ ~employees[k].present /\ employees'[k].present
            /\ employees'[k].auth_uid = enroll[a].cred
            /\ employees'[k].is_registered <=> employees'[k].face_encoding.some
            /\ enroll[a].image.kind = "face" =>
                 /\ employees'[k].face_encoding = Some(enroll[a].image.descriptor)
                 /\ employees'[k].is_registered
            /\ enroll[a].image.kind = "none" =>
                 /\ employees'[k].face_encoding = Absent
                 /\ ~employees'[k].is_registered ]_vars

\* C33 witness: an enrollment with a face image has created a registered
\* row that holds the image's descriptor.
C33_Witness ==
  \E k \in NewIds, a \in Enrollments :
    /\ enroll[a].resp = Resp(201, Created)
    /\ employees[k].present /\ employees[k].auth_uid = enroll[a].cred
    /\ employees[k].is_registered
    /\ employees[k].face_encoding = Some(<<3, 4>>)

\* A step of a notification already started, and a step in which request r
\* sends a response.
NoteStep == Len(notes') = Len(notes) /\ notes' # notes
Responds(r) == req'[r] # req[r] /\ req'[r].pc = "done"
NoteEnded(n) == n.st \in {"dropped", "failed", "delivered", "lost"}

\* C32: no step of a notification, whether it ends delivered, lost, dropped
\* or failed, changes a request, its response or the attendance and
\* employees tables; and a response is sent in the step that starts the
\* notification, before any of the notification's steps.
C32_NotificationInvisible ==
  [][ /\ NoteStep =>
           /\ req' = req
           /\ attendance' = attendance
           /\ employees' = employees
      /\ \A r \in Requests :
           ( Responds(r) /\ Len(notes') > Len(notes) ) =>
             /\ req'[r].resp = Resp(200, Ok)
             /\ notes'[Len(notes')].st = "settings" ]_vars

\* C32 witness: the notifications of a successful check-in and of a
\* successful check-out failed or were lost; the session is closed and the
\* last response is the 200.
C32_Witness ==
  /\ Len(notes) = 2
  /\ notes[1].type = "checkin" /\ notes[1].st = "failed"
  /\ notes[2].type = "checkout" /\ notes[2].st = "lost"
  /\ req["r1"].resp = Resp(200, Ok)
  /\ Len(attendance) = 1 /\ attendance[1].check_out_time # NoTime

\* C34: the punctuality of a check-in notification that was sent is the
\* status_time of the session the check-in inserted.
C34_NotifiedPunctualityIsStored ==
  \A i \in DOMAIN notes :
    ( notes[i].type = "checkin" /\ notes[i].st \in {"sent", "delivered", "lost"} ) =>
      notes[i].status = attendance[notes[i].row].status_time

\* C35: a notification is started only in the step in which a check-in or
\* check-out sends a 2xx response, one per response; a response with any
\* other status starts none; and a notification is sent at most once.
C35_NotifyOnlyOnSuccess ==
  [][ /\ Len(notes') \in {Len(notes), Len(notes) + 1}
      /\ \A i \in DOMAIN notes :
           /\ notes'[i].type = notes[i].type /\ notes'[i].row = notes[i].row
           /\ NoteEnded(notes[i]) => notes'[i] = notes[i]
           /\ ( notes'[i].st = "sent" /\ notes[i].st # "sent" ) => notes[i].st = "name"
           /\ notes[i].st = "sent" => notes'[i].st \in {"sent", "delivered", "lost"}
      /\ Len(notes') = Len(notes) + 1 =>
           \E r \in Requests :
             /\ Responds(r)
             /\ req'[r].kind \in {"checkin", "checkout"}
             /\ req'[r].resp.status >= 200 /\ req'[r].resp.status < 300
             /\ notes'[Len(notes')].type = req'[r].kind
      /\ \A r \in Requests :
           ( Responds(r) /\ ~(req'[r].resp.status >= 200 /\ req'[r].resp.status < 300) )
             => notes' = notes
      /\ \A i, k \in DOMAIN notes' :
           ( i # k /\ notes'[i].type = notes'[k].type ) => notes'[i].row # notes'[k].row
    ]_vars

\* C35 witness: one check-in succeeded and its notification was delivered;
\* a later check-in was rejected and there is still one notification.
C35_Witness ==
  /\ Len(notes) = 1 /\ notes[1].st = "delivered"
  /\ Len(attendance) = 1
  /\ req["r1"].kind = "checkin" /\ req["r1"].resp = Rejections.NoFaceDetected

\* C37: a successful check-in appends exactly one session, of the
\* requesting identity, open, with the request's timestamp as its check-in
\* time, and changes no existing session; no step of a check-in, check-out
\* or reconciliation run removes a session, and only a successful check-in
\* adds one.
C37_CheckInInsertsOne ==
  [][ /\ Len(attendance') >= Len(attendance)
      /\ \A i \in Rows :
           /\ attendance'[i].id = attendance[i].id
           /\ attendance'[i].employee_id = attendance[i].employee_id
           /\ attendance'[i].check_in_time = attendance[i].check_in_time
      /\ \A r \in Requests :
           ( /\ req[r].kind = "checkin" /\ req[r].pc = "inserting"
             /\ req'[r].resp.status = 200 ) =>
             /\ Len(attendance') = Len(attendance) + 1
             /\ \A i \in Rows : attendance'[i] = attendance[i]
             /\ attendance'[Len(attendance')].employee_id = req[r].user
             /\ attendance'[Len(attendance')].check_out_time = NoTime
             /\ attendance'[Len(attendance')].check_in_time = req[r].time
             /\ \A i \in Rows : attendance[i].id # attendance'[Len(attendance')].id
      /\ Len(attendance') > Len(attendance) =>
           \E r \in Requests :
             /\ req[r].kind = "checkin" /\ req[r].pc = "inserting"
             /\ req'[r].resp.status = 200 ]_vars

\* C37 witness: a second check-in succeeded after the first session had
\* been closed; the first session is still there, closed, and the new one
\* is open.
C37_Witness ==
  /\ Len(attendance) = 2
  /\ req["r1"].kind = "checkin" /\ req["r1"].resp.status = 200
  /\ attendance[1].check_out_time # NoTime
  /\ attendance[2].check_out_time = NoTime
  /\ attendance[2].employee_id = "e1"

\* C38: a check-in, check-out or enrollment request that was started ends
\* with a response; a request in flight has no response yet, a finished one
\* has one, and nothing acts on a finished request any more.
C38_OneResponse ==
  /\ [](\A r \in Requests :
          /\ req[r].pc \notin {"idle", "done"} => req[r].resp = NoResp
          /\ req[r].pc = "done" => req[r].resp.status # 0)
  /\ [](\A a \in Enrollments :
          /\ enroll[a].pc \notin {"idle", "done"} => enroll[a].resp = NoResp
          /\ enroll[a].pc = "done" => enroll[a].resp.status # 0)
  /\ [][ /\ \A r \in Requests : req[r].pc = "done" => req'[r] = req[r]
         /\ \A a \in Enrollments : enroll[a].pc = "done" => enroll'[a] = enroll[a] ]_vars
  /\ \A r \in Requests : (req[r].pc # "idle") ~> (req[r].pc = "done")
  /\ \A a \in Enrollments : (enroll[a].pc # "idle") ~> (enroll[a].pc = "done")

\* C38 witness: a check-out whose extraction task was rejected and an
\* enrollment whose insert failed have both been answered.
C38_Witness ==
  /\ req["r1"].kind = "checkout" /\ req["r1"].pc = "done"
  /\ req["r1"].resp.status = 500
  /\ enroll["a1"].pc = "done" /\ enroll["a1"].resp = Resp(409, ErrConflict)

\* C39: the middleware calls next() only for a token that verifies and
\* whose role is allowed (any role when allowedRoles is empty); a missing
\* token is answered 401, a token that does not verify 401, a role that is
\* not allowed 403, and in these three cases next() is not called.
C39_AuthGate ==
  gate.st = "done" =>
    LET token == TokenOf(gate.header)
        valid == token \in {"t-admin", "t-employee", "t-manager", "t-norole"}
        role == IF token = "t-admin" THEN "admin"
                ELSE IF token = "t-employee" THEN "employee"
                ELSE IF token = "t-manager" THEN "manager" ELSE NoRole
        allowed == gate.allowedRoles = {} \/ role \in gate.allowedRoles
    IN  /\ gate.next => token # "" /\ valid /\ allowed
        /\ token = "" => gate.resp = Resp(401, "No token provided") /\ ~gate.next
        /\ ( token # "" /\ ~valid ) => gate.resp = Resp(401, "Invalid token") /\ ~gate.next
        /\ ( valid /\ ~allowed ) => gate.resp = Resp(403, "Insufficient permissions") /\ ~gate.next
        /\ ( valid /\ allowed ) => gate.next

\* C39 witness: a token that verifies but carries no role was refused on a
\* route restricted to admins.
C39_Witness ==
  /\ gate.st = "done"
  /\ gate.header = <<"Bearer", "t-norole">> /\ gate.allowedRoles = {"admin"}
  /\ gate.resp = Resp(403, "Insufficient permissions") /\ ~gate.next

====
